---- MODULE Spec2Model ----
(***************************************************************************)
(* Gentle Giant Maine Coon API: the six HTTP endpoints of main.py over the *)
(* three collections kitten / inquiry / testimonial, with the request      *)
(* validation declared in schemas.py.                                      *)
(*                                                                         *)
(* Strings are sequences of one-character strings.  An Optional value is a *)
(* record [some, v]; Python's None is a record with some = FALSE.          *)
(***************************************************************************)
EXTENDS Integers, Sequences, FiniteSets, TLC

VARIABLES
    db,           \* the process-wide store handle: "None" or "handle"
    kitten,       \* collection "kitten": sequence of documents, natural order
    inquiry,      \* collection "inquiry"
    testimonial,  \* collection "testimonial"
    nextId,       \* the store's identifier generator
    req,          \* the request being answered
    resp,         \* its response: [status, body]
    storeOps,     \* store operations performed while answering req
    posted        \* history: <<id, body>> of every successful POST /api/kittens

vars == <<db, kitten, inquiry, testimonial, nextId, req, resp, storeOps, posted>>
store == <<kitten, inquiry, testimonial>>

---------------------------------------------------------------------------
(* Bounds *)
MaxKittens == 2        \* documents POSTed to "kitten"
MaxInquiries == 1      \* documents POSTed to "inquiry"
MaxTestimonials == 2   \* documents seeded in "testimonial"
MaxPatLen == 2         \* length of a color query string
MaxLimit == 2          \* |limit| of GET /api/testimonials, beside the default

---------------------------------------------------------------------------
(* Optional values and strings *)
None == [some |-> FALSE, v |-> <<>>]
Some(x) == [some |-> TRUE, v |-> x]

Lower(c) ==
    CASE c = "A" -> "a"
      [] c = "S" -> "s"
      [] c = "M" -> "m"
      [] c = "F" -> "f"
      [] OTHER -> c

\* Python truthiness of an Optional[str] query parameter: `if color:`
Truthy(o) == o.some /\ o.v # <<>>

RECURSIVE Digits(_)
Digits(n) == IF n < 10 THEN <<n>> ELSE Append(Digits(n \div 10), n % 10)
\* str(d.get("_id")): the decimal digits of the identifier
IdStr(oid) == Digits(oid)

AVAILABLE == <<"a","v","a","i","l","a","b","l","e">>
SOLD == <<"s","o","l","d">>
SOLD_UC == <<"S","o","l","d">>

---------------------------------------------------------------------------
(* The store's pattern match: {"$regex": p, "$options": "i"}.              *)
(* Pattern characters: '.' any character, '*' zero or more of the item     *)
(* before it, '(' opens a group (no ')' is in the alphabet, so a pattern   *)
(* holding '(' does not compile), anything else itself, case folded.       *)
RegexValid(p) ==
    \A i \in 1..Len(p) :
        /\ p[i] # "("
        /\ p[i] = "*" => (i > 1 /\ p[i-1] # "*")

AtomMatch(a, c) == a = "." \/ Lower(a) = Lower(c)

RECURSIVE MatchHere(_, _, _, _)
MatchHere(p, j, s, i) ==
    IF j > Len(p) THEN TRUE
    ELSE IF j < Len(p) /\ p[j+1] = "*"
         THEN \/ MatchHere(p, j + 2, s, i)
              \/ (i <= Len(s) /\ AtomMatch(p[j], s[i]) /\ MatchHere(p, j, s, i + 1))
         ELSE i <= Len(s) /\ AtomMatch(p[j], s[i]) /\ MatchHere(p, j + 1, s, i + 1)

\* unanchored search
RegexSearch(p, s) == \E i \in 1..(Len(s) + 1) : MatchHere(p, 1, s, i)

---------------------------------------------------------------------------
(* Document-access helpers (database.py) *)
CondValid(c) == c.op = "$regex" => RegexValid(c.arg)
CondMatch(c, value) ==
    IF c.op = "$regex" THEN RegexSearch(c.arg, value) ELSE value = c.arg

QueryValid(query) == \A f \in DOMAIN query : CondValid(query[f])
DocMatches(d, query) == \A f \in DOMAIN query : CondMatch(query[f], d[f])

RECURSIVE SelectDocs(_, _)
SelectDocs(coll, query) ==
    IF coll = <<>> THEN <<>>
    ELSE IF DocMatches(Head(coll), query)
         THEN <<Head(coll)>> \o SelectDocs(Tail(coll), query)
         ELSE SelectDocs(Tail(coll), query)

\* find(filter) in natural order, up to limit documents, 0 meaning unbounded
get_documents(coll, query, limit) ==
    LET found == SelectDocs(coll, query)
    IN IF limit = 0 \/ limit >= Len(found) THEN found ELSE SubSeq(found, 1, limit)

\* insert: the serialized record with a store-generated identifier
create_document(coll, record, oid) == Append(coll, [record EXCEPT !._id = oid])

---------------------------------------------------------------------------
(* schemas.py *)
UrlGood == <<"https", "://", "img.example">>
UrlBad == <<"img.example">>
\* HttpUrl: an http or https scheme and a host
IsHttpUrl(u) == Len(u) = 3 /\ u[1] \in {"http", "https"} /\ u[2] = "://" /\ u[3] # ""

\* EmailStr: local@domain, one '@', a dotted domain
IsEmail(e) ==
    \E i \in 2..Len(e) :
        /\ e[i] = "@"
        /\ \A k \in 1..Len(e) : e[k] = "@" => k = i
        /\ \E k \in (i + 2)..(Len(e) - 1) : e[k] = "."

\* age_weeks declared without ge=0
KittenValid_noAgeBound(b) ==
    /\ b.name.some
    /\ b.color.some
    /\ b.sex.some
    /\ b.location.some
    /\ b.price_usd.some => b.price_usd.v >= 0
    /\ b.images.some => \A i \in 1..Len(b.images.v) : IsHttpUrl(b.images.v[i])

KittenValid(b) ==
    /\ b.name.some
    /\ b.color.some
    /\ b.sex.some
    /\ b.age_weeks.some => b.age_weeks.v >= 0
    /\ b.location.some
    /\ b.price_usd.some => b.price_usd.v >= 0
    /\ b.images.some => \A i \in 1..Len(b.images.v) : IsHttpUrl(b.images.v[i])

\* giant declared with default False
Kitten_giantFalse(b) ==
    [_id |-> 0,
     name |-> b.name.v,
     color |-> b.color.v,
     sex |-> b.sex.v,
     age_weeks |-> b.age_weeks,
     location |-> b.location.v,
     giant |-> IF b.giant.some THEN b.giant.v ELSE FALSE,
     price_usd |-> b.price_usd,
     status |-> IF b.status.some THEN b.status.v ELSE AVAILABLE,
     images |-> IF b.images.some THEN b.images.v ELSE <<>>,
     description |-> b.description]

\* the validated Kitten, defaults applied, as model_dump() serializes it
Kitten(b) ==
    [_id |-> 0,
     name |-> b.name.v,
     color |-> b.color.v,
     sex |-> b.sex.v,
     age_weeks |-> b.age_weeks,
     location |-> b.location.v,
     giant |-> IF b.giant.some THEN b.giant.v ELSE TRUE,
     price_usd |-> b.price_usd,
     status |-> IF b.status.some THEN b.status.v ELSE AVAILABLE,
     images |-> IF b.images.some THEN b.images.v ELSE <<>>,
     description |-> b.description]

InquiryValid(b) ==
    /\ b.name.some
    /\ b.email.some
    /\ IsEmail(b.email.v)

Inquiry(b) ==
    [_id |-> 0,
     name |-> b.name.v,
     email |-> b.email.v,
     phone |-> b.phone,
     preferred_color |-> b.preferred_color,
     location |-> b.location,
     contact_method |-> b.contact_method,
     message |-> b.message]

\* a stored testimonial
Testimonial(oid) ==
    [_id |-> oid,
     author |-> <<"a">>,
     handle |-> None,
     content |-> <<"c">>,
     rating |-> 5,
     avatar_url |-> None,
     image_url |-> None]

---------------------------------------------------------------------------
(* main.py *)
Ok(body) == [status |-> 200, body |-> body]
\* FastAPI's answer to a body that fails its schema
ValidationError == [status |-> 422, body |-> "validation error"]
\* raise HTTPException(status_code=500, detail="Database not available")
DatabaseNotAvailable == [status |-> 500, body |-> "Database not available"]
\* an exception the handler does not catch
InternalServerError == [status |-> 500, body |-> "Internal Server Error"]

\* Python's seq[:n]
SliceTo(seq, n) ==
    IF n >= 0
    THEN SubSeq(seq, 1, IF n < Len(seq) THEN n ELSE Len(seq))
    ELSE SubSeq(seq, 1, IF Len(seq) + n > 0 THEN Len(seq) + n ELSE 0)

\* d["id"] = str(d.get("_id")); d.pop("_id", None); KittenOut(**d)
KittenOut(d) ==
    [id |-> Some(IdStr(d._id)),
     name |-> d.name,
     color |-> d.color,
     sex |-> d.sex,
     age_weeks |-> d.age_weeks,
     location |-> d.location,
     giant |-> d.giant,
     price_usd |-> d.price_usd,
     status |-> d.status,
     images |-> d.images,
     description |-> d.description]

\* d["id"] = str(d.get("_id")); d.pop("_id", None); TestimonialOut(**d)
TestimonialOut(d) ==
    [id |-> Some(IdStr(d._id)),
     author |-> d.author,
     handle |-> d.handle,
     content |-> d.content,
     rating |-> d.rating,
     avatar_url |-> d.avatar_url,
     image_url |-> d.image_url]

\* the filter list_kittens builds from its query parameters
KittenQuery(color, location, sex, status) ==
    LET params == [color |-> color, location |-> location, sex |-> sex, status |-> status]
    IN [f \in {g \in DOMAIN params : Truthy(params[g])} |->
           IF f = "status"
           THEN [op |-> "$eq", arg |-> status.v]
           ELSE [op |-> "$regex", arg |-> params[f].v]]

\* the curated fallback examples
examples ==
    << [id |-> None, author |-> <<"S","o","f","i","a">>, handle |-> Some(<<"@","s">>),
        content |-> <<"c","1">>, rating |-> 5, avatar_url |-> Some(UrlGood), image_url |-> None],
       [id |-> None, author |-> <<"M","i","c","h","a","e","l">>, handle |-> Some(<<"@","m">>),
        content |-> <<"c","2">>, rating |-> 5, avatar_url |-> Some(UrlGood), image_url |-> None] >>

\* no request is being answered
Idle == [op |-> "idle", args |-> <<>>]
NoResponse == [status |-> 0, body |-> <<>>]

\* store calls fail only where there is a store to call
Outcomes == IF db = "None" THEN {TRUE} ELSE BOOLEAN

read_root ==
    /\ req = Idle
    /\ req' = [op |-> "read_root", args |-> <<>>]
    /\ resp' = Ok("Gentle Giant Maine Coon API Running")
    /\ storeOps' = 0
    /\ UNCHANGED <<db, kitten, inquiry, testimonial, nextId, posted>>

\* collections that exist in the store
CollectionNames ==
    (IF kitten # <<>> THEN <<"kitten">> ELSE <<>>)
    \o (IF inquiry # <<>> THEN <<"inquiry">> ELSE <<>>)
    \o (IF testimonial # <<>> THEN <<"testimonial">> ELSE <<>>)

test_database ==
    \E urlSet \in BOOLEAN, storeOk \in Outcomes :
        /\ req = Idle
        /\ req' = [op |-> "test_database", args |-> <<>>]
        /\ resp' = Ok(
             IF db # "None"
             THEN [backend |-> "Running",
                   database |-> IF storeOk THEN "Connected & Working"
                                ELSE "Connected but Error",
                   database_url |-> IF urlSet THEN "Set" ELSE "Not Set",
                   database_name |-> "name",
                   connection_status |-> "Connected",
                   collections |-> IF storeOk THEN SliceTo(CollectionNames, 10) ELSE <<>>]
             ELSE [backend |-> "Running",
                   database |-> "Available but not initialized",
                   database_url |-> "None",
                   database_name |-> "None",
                   connection_status |-> "Not Connected",
                   collections |-> <<>>])
        /\ storeOps' = IF db # "None" THEN 1 ELSE 0
        /\ UNCHANGED <<db, kitten, inquiry, testimonial, nextId, posted>>

list_kittens(color, location, sex, status) ==
    \E storeOk \in Outcomes :
        LET query == KittenQuery(color, location, sex, status)
        IN /\ req = Idle
           /\ req' = [op |-> "list_kittens",
                      args |-> [color |-> color, location |-> location,
                                sex |-> sex, status |-> status]]
           /\ IF db = "None"
              THEN resp' = Ok(<<>>) /\ storeOps' = 0
              ELSE /\ storeOps' = 1
                   /\ IF storeOk /\ QueryValid(query)
                      THEN LET docs == get_documents(kitten, query, 0)
                           IN resp' = Ok([i \in 1..Len(docs) |-> KittenOut(docs[i])])
                      ELSE resp' = InternalServerError
           /\ UNCHANGED <<db, kitten, inquiry, testimonial, nextId, posted>>

\* the handler without its `if db is None` guard
create_kitten_noHandleCheck(body) ==
    \E storeOk \in (IF KittenValid(body) THEN Outcomes ELSE {TRUE}) :
        /\ req = Idle
        /\ req' = [op |-> "create_kitten", args |-> body]
        /\ IF ~KittenValid(body)
           THEN /\ resp' = ValidationError
                /\ storeOps' = 0
                /\ UNCHANGED <<kitten, nextId, posted>>
           ELSE IF storeOk /\ db # "None"
           THEN /\ Len(kitten) < MaxKittens
                /\ kitten' = create_document(kitten, Kitten(body), nextId)
                /\ nextId' = nextId + 1
                /\ resp' = Ok([id |-> IdStr(nextId)])
                /\ posted' = posted \cup {<<IdStr(nextId), body>>}
                /\ storeOps' = 1
           ELSE /\ resp' = InternalServerError
                /\ storeOps' = 1
                /\ UNCHANGED <<kitten, nextId, posted>>
        /\ UNCHANGED <<db, inquiry, testimonial>>

create_kitten(body) ==
    \E storeOk \in (IF KittenValid(body) THEN Outcomes ELSE {TRUE}) :
        /\ req = Idle
        /\ req' = [op |-> "create_kitten", args |-> body]
        /\ IF ~KittenValid(body)
           THEN /\ resp' = ValidationError
                /\ storeOps' = 0
                /\ UNCHANGED <<kitten, nextId, posted>>
           ELSE IF db = "None"
           THEN /\ resp' = DatabaseNotAvailable
                /\ storeOps' = 0
                /\ UNCHANGED <<kitten, nextId, posted>>
           ELSE IF storeOk
           THEN /\ Len(kitten) < MaxKittens
                /\ kitten' = create_document(kitten, Kitten(body), nextId)
                /\ nextId' = nextId + 1
                /\ resp' = Ok([id |-> IdStr(nextId)])
                /\ posted' = posted \cup {<<IdStr(nextId), body>>}
                /\ storeOps' = 1
           ELSE /\ resp' = InternalServerError
                /\ storeOps' = 1
                /\ UNCHANGED <<kitten, nextId, posted>>
        /\ UNCHANGED <<db, inquiry, testimonial>>

\* the handler storing the inquiry twice
submit_inquiry_twice(body) ==
    \E storeOk \in (IF InquiryValid(body) THEN Outcomes ELSE {TRUE}) :
        /\ req = Idle
        /\ req' = [op |-> "submit_inquiry", args |-> body]
        /\ IF ~InquiryValid(body)
           THEN /\ resp' = ValidationError
                /\ storeOps' = 0
                /\ UNCHANGED <<inquiry, nextId>>
           ELSE IF db = "None"
           THEN /\ resp' = DatabaseNotAvailable
                /\ storeOps' = 0
                /\ UNCHANGED <<inquiry, nextId>>
           ELSE IF storeOk
           THEN /\ Len(inquiry) < MaxInquiries
                /\ inquiry' = create_document(create_document(inquiry, Inquiry(body), nextId),
                                               Inquiry(body), nextId + 1)
                /\ nextId' = nextId + 2
                /\ resp' = Ok([id |-> IdStr(nextId + 1), success |-> TRUE])
                /\ storeOps' = 2
           ELSE /\ resp' = InternalServerError
                /\ storeOps' = 1
                /\ UNCHANGED <<inquiry, nextId>>
        /\ UNCHANGED <<db, kitten, testimonial, posted>>

submit_inquiry(body) ==
    \E storeOk \in (IF InquiryValid(body) THEN Outcomes ELSE {TRUE}) :
        /\ req = Idle
        /\ req' = [op |-> "submit_inquiry", args |-> body]
        /\ IF ~InquiryValid(body)
           THEN /\ resp' = ValidationError
                /\ storeOps' = 0
                /\ UNCHANGED <<inquiry, nextId>>
           ELSE IF db = "None"
           THEN /\ resp' = DatabaseNotAvailable
                /\ storeOps' = 0
                /\ UNCHANGED <<inquiry, nextId>>
           ELSE IF storeOk
           THEN /\ Len(inquiry) < MaxInquiries
                /\ inquiry' = create_document(inquiry, Inquiry(body), nextId)
                /\ nextId' = nextId + 1
                /\ resp' = Ok([id |-> IdStr(nextId), success |-> TRUE])
                /\ storeOps' = 1
           ELSE /\ resp' = InternalServerError
                /\ storeOps' = 1
                /\ UNCHANGED <<inquiry, nextId>>
        /\ UNCHANGED <<db, kitten, testimonial, posted>>

\* the call made without its limit argument
TestimonialDocs_noLimit(limit, n) == get_documents(testimonial, <<>>, 0)

\* docs = get_documents("testimonial", {}, limit); the helper's answer to a
\* negative limit is not fixed: any n documents
TestimonialDocs(limit, n) ==
    IF limit >= 0 THEN get_documents(testimonial, <<>>, limit) ELSE SubSeq(testimonial, 1, n)

list_testimonials(limit) ==
    \E storeOk \in Outcomes,
       n \in (IF db # "None" /\ limit < 0 THEN 0..Len(testimonial) ELSE {0}) :
        /\ req = Idle
        /\ req' = [op |-> "list_testimonials", args |-> [limit |-> limit]]
        /\ IF db = "None"
           THEN resp' = Ok(SliceTo(examples, limit)) /\ storeOps' = 0
           ELSE /\ storeOps' = 1
                /\ IF storeOk
                   THEN LET docs == TestimonialDocs(limit, n)
                        IN resp' = Ok([i \in 1..Len(docs) |-> TestimonialOut(docs[i])])
                   ELSE resp' = InternalServerError
        /\ UNCHANGED <<db, kitten, inquiry, testimonial, nextId, posted>>

\* the response leaves; the server takes the next request
send_response ==
    /\ req # Idle
    /\ req' = Idle
    /\ resp' = NoResponse
    /\ storeOps' = 0
    /\ UNCHANGED <<db, kitten, inquiry, testimonial, nextId, posted>>

---------------------------------------------------------------------------
(* Requests *)
DefaultLimit == 10
Limits == ((0 - MaxLimit)..MaxLimit) \cup {DefaultLimit}

MinimalKitten ==
    [name |-> Some(<<"L","e","o">>), color |-> Some(<<"A">>), sex |-> Some(<<"F">>),
     age_weeks |-> None, location |-> Some(<<"M">>), giant |-> None, price_usd |-> None,
     status |-> None, images |-> None, description |-> None]
FullKitten ==
    [name |-> Some(<<"L","e","o">>), color |-> Some(<<".","a">>), sex |-> Some(<<"F">>),
     age_weeks |-> Some(0), location |-> Some(<<"L">>), giant |-> Some(FALSE),
     price_usd |-> Some(5), status |-> Some(SOLD), images |-> Some(<<UrlGood>>),
     description |-> Some(<<"d">>)]
GoodKittens ==
    {MinimalKitten, FullKitten,
     [MinimalKitten EXCEPT !.giant = Some(FALSE)],
     [MinimalKitten EXCEPT !.status = Some(SOLD_UC)]}
BadKittens ==
    UNION {{[k EXCEPT !.name = None], [k EXCEPT !.color = None],
            [k EXCEPT !.sex = None], [k EXCEPT !.location = None],
            [k EXCEPT !.age_weeks = Some(-1)], [k EXCEPT !.price_usd = Some(-1)],
            [k EXCEPT !.images = Some(<<UrlGood, UrlBad>>)]} : k \in {MinimalKitten, FullKitten}}
KittenBodies == GoodKittens \cup BadKittens

EmailGood == <<"u","@","d",".","c">>
NotAnEmail == <<"n","o","t","-","a","n","-","e","m","a","i","l">>
MinimalInquiry ==
    [name |-> Some(<<"n">>), email |-> Some(EmailGood), phone |-> None,
     preferred_color |-> None, location |-> None, contact_method |-> None, message |-> None]
InquiryBodies ==
    {MinimalInquiry,
     [MinimalInquiry EXCEPT !.name = None],
     [MinimalInquiry EXCEPT !.email = None],
     [MinimalInquiry EXCEPT !.email = Some(NotAnEmail)],
     [MinimalInquiry EXCEPT !.email = Some(<<"u","@","d">>)],
     [MinimalInquiry EXCEPT !.email = Some(<<"@","d",".","c">>)]}

\* query strings of GET /api/kittens
ColorParams == {None, Some(<<>>), Some(<<"a">>), Some(<<".">>)}
LocationParams == {None, Some(<<"m">>)}
SexParams == {None, Some(<<"f">>)}
StatusParams == {None, Some(SOLD)}

---------------------------------------------------------------------------
Init ==
    /\ db \in {"None", "handle"}
    /\ kitten = <<>>
    /\ inquiry = <<>>
    /\ \E n \in 0..MaxTestimonials :
          /\ testimonial = [i \in 1..n |-> Testimonial(i)]
          /\ nextId = n + 1
    /\ req = Idle
    /\ resp = NoResponse
    /\ storeOps = 0
    /\ posted = {}

Next ==
    \/ read_root
    \/ test_database
    \/ \E c \in ColorParams, l \in LocationParams, s \in SexParams, st \in StatusParams :
          list_kittens(c, l, s, st)
    \/ \E b \in KittenBodies : create_kitten(b)
    \/ \E b \in InquiryBodies : submit_inquiry(b)
    \/ \E n \in Limits : list_testimonials(n)
    \/ send_response

Spec == Init /\ [][Next]_vars

---------------------------------------------------------------------------
(* The filter study: kittens that differ in the filtered fields, and every *)
(* color query string up to MaxPatLen characters.                          *)
PatChars == {"a", "A", ".", "*", "("}
Strings(n) == UNION {[1..k -> PatChars] : k \in 0..n}
ColorPatterns == {None} \cup {Some(p) : p \in Strings(MaxPatLen)}
LocationPatterns == {None, Some(<<"m">>), Some(<<"l">>)}
SexPatterns == {None, Some(<<"f">>)}
StatusValues == {None, Some(<<>>), Some(SOLD)}
FilterKittens ==
    {[MinimalKitten EXCEPT !.color = Some(c), !.status = st] :
        c \in {<<"A","a">>, <<".">>}, st \in {None, Some(SOLD), Some(SOLD_UC)}}

InitFilter ==
    /\ db \in {"None", "handle"}
    /\ kitten = <<>>
    /\ inquiry = <<>>
    /\ testimonial = <<>>
    /\ nextId = 1
    /\ req = Idle
    /\ resp = NoResponse
    /\ storeOps = 0
    /\ posted = {}

NextFilter ==
    \/ \E b \in FilterKittens : create_kitten(b)
    \/ \E c \in ColorPatterns, l \in LocationPatterns, s \in SexPatterns, st \in StatusValues :
          list_kittens(c, l, s, st)
    \/ send_response

SpecFilter == InitFilter /\ [][NextFilter]_vars

---------------------------------------------------------------------------
(* Properties *)
KittenParams == {"color", "location", "sex", "status"}
NoFilters == \A f \in KittenParams : ~req.args[f].some
Listed == req.op = "list_kittens" /\ db # "None" /\ resp.status = 200
\* the ids of the records in a list response
RespIds == {resp.body[i].id.v : i \in 1..Len(resp.body)}

\* p occurs in s, letter case ignored
ContainsCI(p, s) ==
    \E i \in 0..(Len(s) - Len(p)) : \A k \in 1..Len(p) : Lower(p[k]) = Lower(s[i + k])

\* r carries the fields of payload k, absent fields at their defaults
EqualsPayload(r, k) ==
    /\ r.name = k.name.v
    /\ r.color = k.color.v
    /\ r.sex = k.sex.v
    /\ r.location = k.location.v
    /\ r.age_weeks = k.age_weeks
    /\ r.price_usd = k.price_usd
    /\ r.description = k.description
    /\ r.giant = (IF k.giant.some THEN k.giant.v ELSE TRUE)
    /\ r.status = (IF k.status.some THEN k.status.v ELSE AVAILABLE)
    /\ r.images = (IF k.images.some THEN k.images.v ELSE <<>>)

C2_ContainsEveryString ==
    Listed =>
        \A f \in {"color", "location", "sex"} :
            (Truthy(req.args[f]) /\ \A g \in KittenParams \ {f} : ~Truthy(req.args[g])) =>
                \A i \in 1..Len(kitten) :
                    (IdStr(kitten[i]._id) \in RespIds) <=> ContainsCI(req.args[f].v, kitten[i][f])

\* the condition the specification attaches to a supplied parameter
ParamHolds(f, d) ==
    IF f = "status" THEN d.status = req.args.status.v
    ELSE ContainsCI(req.args[f].v, d[f])

\* C3: for every status value s given to GET /api/kittens, every returned
\* record has status exactly s, and every stored kitten with status exactly s
\* that satisfies the other filters is returned.
C3_StatusExact ==
    (Listed /\ req.args.status.some) =>
        /\ \A i \in 1..Len(resp.body) : resp.body[i].status = req.args.status.v
        /\ \A i \in 1..Len(kitten) :
              (/\ kitten[i].status = req.args.status.v
               /\ \A f \in {"color", "location", "sex"} :
                     req.args[f].some => ParamHolds(f, kitten[i]))
              => IdStr(kitten[i]._id) \in RespIds

\* C4: the returned set is exactly the stored kittens that satisfy the
\* condition of every supplied (non-empty) parameter at once; an omitted
\* parameter constrains nothing.
C4_LogicalAnd ==
    Listed =>
        RespIds = {IdStr(kitten[i]._id) : i \in
                     {j \in 1..Len(kitten) :
                         \A f \in KittenParams : Truthy(req.args[f]) => ParamHolds(f, kitten[j])}}

\* the schema violations of a body
ViolatesKitten(b) ==
    \/ ~b.name.some \/ ~b.color.some \/ ~b.sex.some \/ ~b.location.some
    \/ (b.age_weeks.some /\ b.age_weeks.v < 0)
    \/ (b.price_usd.some /\ b.price_usd.v < 0)
    \/ (b.images.some /\ \E i \in 1..Len(b.images.v) : ~IsHttpUrl(b.images.v[i]))
ViolatesInquiry(b) ==
    \/ ~b.name.some \/ ~b.email.some
    \/ (b.email.some /\ ~IsEmail(b.email.v))
BadBody(r) ==
    \/ r.op = "create_kitten" /\ ViolatesKitten(r.args)
    \/ r.op = "submit_inquiry" /\ ViolatesInquiry(r.args)

\* C5: a POST whose body violates its schema is answered 422 without any store
\* operation, and the three collections are after it what they were before,
\* whether the store is available or not.
C5_RejectedBeforeStore ==
    [][BadBody(req') => (resp'.status = 422 /\ storeOps' = 0 /\ store' = store)]_vars
C5_Witness ==
    /\ req.op = "submit_inquiry"
    /\ req.args.email = Some(NotAnEmail)
    /\ resp.status = 422
    /\ db = "handle"
    /\ Len(kitten) > 0

\* C6: without a store handle GET /api/kittens answers the empty list whatever
\* its parameters, a valid POST answers 500 "Database not available", and no
\* request performs a store operation or surfaces a low-level error.
C6_StoreAbsent ==
    db = "None" =>
        /\ storeOps = 0
        /\ store = <<<<>>, <<>>, testimonial>>
        /\ resp # InternalServerError
        /\ req.op = "list_kittens" => resp = Ok(<<>>)
        /\ (req.op = "create_kitten" /\ ~ViolatesKitten(req.args)) => resp = DatabaseNotAvailable
        /\ (req.op = "submit_inquiry" /\ ~ViolatesInquiry(req.args)) => resp = DatabaseNotAvailable
C6_Witness ==
    /\ db = "None"
    /\ req.op = "create_kitten"
    /\ ~ViolatesKitten(req.args)
    /\ resp.status = 500

Min(a, b) == IF a < b THEN a ELSE b
Max(a, b) == IF a > b THEN a ELSE b

\* C7: without a store handle GET /api/testimonials answers, for every integer
\* limit, the first min(max(limit, 0), 2) built-in examples.
C7_FallbackPrefix ==
    (req.op = "list_testimonials" /\ db = "None") =>
        /\ resp.status = 200
        /\ resp.body = SubSeq(examples, 1, Min(Max(req.args.limit, 0), 2))

\* C8 as stated: with the store available GET /api/testimonials?limit=n
\* returns at most n records for every integer n (here: every n >= 0).
C8_AtMostLimit ==
    (req.op = "list_testimonials" /\ db # "None" /\ resp.status = 200
        /\ req.args.limit >= 0) =>
        Len(resp.body) <= req.args.limit

\* C8 amended: at most n records for every n >= 1, every stored testimonial
\* for n = 0, and each record is the stored document at its place in store
\* order, its _id taken out and given back as the string id.
C8_AtMostPositiveLimit ==
    (req.op = "list_testimonials" /\ db # "None" /\ resp.status = 200) =>
        /\ req.args.limit >= 1 => Len(resp.body) <= req.args.limit
        /\ req.args.limit = 0 => Len(resp.body) = Len(testimonial)
        /\ Len(resp.body) <= Len(testimonial)
        /\ \A i \in 1..Len(resp.body) :
              /\ "_id" \notin DOMAIN resp.body[i]
              /\ resp.body[i].id = Some(IdStr(testimonial[i]._id))
              /\ \A f \in DOMAIN testimonial[i] \ {"_id"} : resp.body[i][f] = testimonial[i][f]
C8_Witness ==
    /\ req.op = "list_testimonials"
    /\ db # "None"
    /\ resp.status = 200
    /\ req.args.limit >= 1
    /\ Len(resp.body) = req.args.limit
    /\ Len(testimonial) > req.args.limit

\* C9: GET /api/kittens never answers with an error: a failing find gives the
\* empty list.
C9_NoStoreErrorPropagated ==
    req.op = "list_kittens" => resp.status = 200

IsPrefix(a, b) == Len(a) <= Len(b) /\ SubSeq(b, 1, Len(a)) = a
Reads == {"read_root", "test_database", "list_kittens", "list_testimonials"}

\* C10: the store is append-only: stored documents are never changed or
\* removed, the GET endpoints leave the collections as they were, a successful
\* POST adds one document to its own collection and none to the others, and no
\* request performs more than one store operation.
C10_AppendOnly ==
    [][/\ IsPrefix(kitten, kitten')
       /\ IsPrefix(inquiry, inquiry')
       /\ IsPrefix(testimonial, testimonial')
       /\ req'.op \in Reads => store' = store
       /\ (req'.op = "create_kitten" /\ resp'.status = 200) =>
             (Len(kitten') = Len(kitten) + 1 /\ inquiry' = inquiry /\ testimonial' = testimonial)
       /\ (req'.op = "submit_inquiry" /\ resp'.status = 200) =>
             (Len(inquiry') = Len(inquiry) + 1 /\ kitten' = kitten /\ testimonial' = testimonial)
       /\ storeOps' <= 1]_vars
C10_Witness ==
    /\ req.op = "submit_inquiry"
    /\ resp.status = 200
    /\ storeOps = 1
    /\ Len(inquiry) = 1
    /\ Len(kitten) > 0
    /\ Len(testimonial) > 0

====
